---- MODULE Spec2Model ----
(***************************************************************************)
(* A model of src/vuln_scanner.py: the WebVulnScanner orchestrator, the    *)
(* worker pool of check_common_paths draining a queue.Queue, the           *)
(* sequential CVE-signature loop and the JSON export.                      *)
(*                                                                         *)
(* Python values are modelled by what the code does with them:             *)
(*   - a str is a sequence of one-character strings, so that rstrip, + and *)
(*     `in` are computed and not assumed;                                  *)
(*   - a value that may be None is a tagged record: None, Str(s) or a      *)
(*     Response;                                                           *)
(*   - a dict is the sequence of its <<key, value>> items in insertion     *)
(*     order.                                                              *)
(***************************************************************************)
EXTENDS Integers, Sequences, FiniteSets, TLC

VARIABLES
    target,              \* self.target
    threads,             \* self.threads
    integration_output,  \* self.integration_output
    findings,            \* self.findings
    pc,                  \* position of the main thread inside run()
    i,                   \* index of the loop the main thread is in
    results,             \* check_common_paths' local list `results`
    pathq,               \* the items held by queue.Queue `pathq`
    unfinished_tasks,    \* pathq.unfinished_tasks (put increments, task_done decrements)
    wpc,                 \* position of each worker thread
    wpath,               \* each worker's local `path`
    wresp,               \* each worker's local `resp`
    cve_resp,            \* check_cve_signatures' local `resp`
    file,                \* what save_results_json wrote, None if nothing was written
    outcome,             \* history: the outcome robust_get gave for each URL
    probes,              \* history: number of robust_get calls per URL
    dequeues,            \* history: number of times each path was taken from pathq
    processed,           \* history: number of task_done calls per path
    cve_status,          \* history: finding['status'] at the end of each CVE iteration
    cve_report           \* history: the line each CVE iteration printed

vars == <<target, threads, integration_output, findings, pc, i, results, pathq,
          unfinished_tasks, wpc, wpath, wresp, cve_resp, file,
          outcome, probes, dequeues, processed, cve_status, cve_report>>

(***************************************************************************)
(* Bounds of the model.                                                    *)
(***************************************************************************)
\* Number of entries of COMMON_PATHS the scan enqueues (the table has 9).
NumPaths == 2
\* Largest --threads value tried; values down to -1 are tried as well.
MaxThreads == 3

(***************************************************************************)
(* Python values.                                                          *)
(***************************************************************************)
None == [t |-> "None"]
Str(s) == [t |-> "str", v |-> s]
Response(status, text) == [t |-> "Response", status_code |-> status, text |-> text]

\* faulty variant of RangeLen: one iteration too many (range(n + 1))
RangeLenPlusOne(n) == IF n + 1 > 0 THEN n + 1 ELSE 0

\* len(range(n)): the number of iterations of `for _ in range(n)`
RangeLen(n) == IF n > 0 THEN n ELSE 0

\* str.rstrip('/')
RECURSIVE RStripSlash(_)
RStripSlash(s) ==
    IF s # <<>> /\ s[Len(s)] = "/" THEN RStripSlash(SubSeq(s, 1, Len(s) - 1)) ELSE s

\* faulty variant of StrIn: str.startswith in place of `in`
StartsWith(needle, hay) ==
    Len(needle) <= Len(hay) /\ SubSeq(hay, 1, Len(needle)) = needle

\* `needle in hay` on two str
StrIn(needle, hay) ==
    \E k \in 0..(Len(hay) - Len(needle)) : SubSeq(hay, k + 1, k + Len(needle)) = needle

(***************************************************************************)
(* The static tables.                                                      *)
(***************************************************************************)
KwApache == <<"A","p","a","c","h","e">>
KwRoot == <<"r","o","o","t",":">>

CVE_PATHS ==
    << [cve |-> "CVE-2017-5638",
        path |-> <<"/","s","t","r","u","t","s","2","-","s","h","o","w","c","a","s","e",
                   "/","i","n","d","e","x",".","a","c","t","i","o","n">>,
        keyword |-> Str(KwApache)],
       [cve |-> "CVE-2019-19781",
        path |-> <<"/","v","p","n","/",".",".","/","v","p","n","s","/">>,
        keyword |-> None],
       [cve |-> "CVE-2021-41773",
        path |-> <<"/","c","g","i","-","b","i","n","/",".","%","2","e","/","%","2","e",
                   "%","2","e","/","%","2","e","%","2","e","/","%","2","e","%","2","e",
                   "/","e","t","c","/","p","a","s","s","w","d">>,
        keyword |-> Str(KwRoot)] >>

AllCommonPaths ==
    << <<"/","a","d","m","i","n">>,
       <<"/","l","o","g","i","n">>,
       <<"/",".","g","i","t">>,
       <<"/",".","e","n","v">>,
       <<"/","c","o","n","f","i","g">>,
       <<"/","p","h","p","i","n","f","o",".","p","h","p">>,
       <<"/","t","e","s","t">>,
       <<"/","b","a","c","k","u","p">>,
       <<"/",".","D","S","_","S","t","o","r","e">> >>

\* the entries of the table the model scans
COMMON_PATHS ==
    SubSeq(AllCommonPaths, 1, IF NumPaths < Len(AllCommonPaths) THEN NumPaths
                              ELSE Len(AllCommonPaths))

PathSet == {COMMON_PATHS[k] : k \in 1..Len(COMMON_PATHS)}

CvePathSet == {CVE_PATHS[k].path : k \in 1..Len(CVE_PATHS)}

AllPaths == PathSet \cup CvePathSet

(***************************************************************************)
(* The environment: the targets given on the command line and what the     *)
(* server answers.                                                         *)
(***************************************************************************)
Targets ==
    { <<"h","t","t","p",":","/","/","t">>,
      <<"h","t","t","p",":","/","/","t","/">>,
      <<"h","t","t","p",":","/","/","t","/","/">>,
      <<"t">> }

OutputPaths == { None, Str(<<"o","u","t",".","j","s","o","n">>) }

\* thread counts argparse's type=int accepts
ThreadCounts == (0 - 1)..MaxThreads

Workers == 1..MaxThreads

\* HTTP statuses the server answers with
Statuses == {200, 204, 404}

BodyPasswd == <<"r","o","o","t",":","x",":","0",":","0">>
BodyStruts == <<"b","y"," ","A","p","a","c","h","e">>
BodyEmpty == <<>>

\* response bodies served on the CVE paths
Bodies == {BodyPasswd, BodyStruts}

\* what robust_get can return: the response of requests.get, or None when
\* requests.get raised a RequestException
RobustGetOutcomes(bodies) ==
    {None} \cup {Response(s, b) : s \in Statuses, b \in bodies}

\* the URL names a scheme requests can connect with
HasScheme(url) ==
    \E scheme \in { <<"h","t","t","p",":","/","/">>, <<"h","t","t","p","s",":","/","/">> } :
        Len(scheme) <= Len(url) /\ SubSeq(url, 1, Len(scheme)) = scheme

\* robust_get(url, timeout): for a URL without scheme requests.get raises
\* MissingSchema, a RequestException, and no response can come back
GetOutcomes(url, bodies) ==
    IF HasScheme(url) THEN RobustGetOutcomes(bodies) ELSE {None}

\* faulty variant of RobustGetPc: the RequestException is not caught and ends the
\* calling thread
RaisingGetPc(resp, next) == IF resp = None THEN "exited" ELSE next

\* faulty variant of RobustGetPc: a failed request is tried again
RetryingGetPc(resp, next) ==
    IF resp = None THEN (IF next = "classify" THEN "probe" ELSE "cve_probe") ELSE next

\* where the caller of robust_get goes on once it returned `resp`: robust_get
\* raises nothing, so the caller always reaches its next statement
RobustGetPc(resp, next) == next

\* bool(resp) of `if resp`: None is false, and requests.Response.__bool__ is
\* Response.ok, true when the status is below 400
Truthy(resp) == resp # None /\ resp.status_code < 400

(***************************************************************************)
(* queue.Queue and list operations.                                        *)
(***************************************************************************)
\* faulty variant of QueuePut: the item is put twice
QueuePutTwice(q, item) == Append(Append(q, item), item)

\* Queue.put(item): the items after the put
QueuePut(q, item) == Append(q, item)

\* faulty variant of QueueGetRest: the head is read but left on the queue
QueuePeekRest(q) == q

\* Queue.get(): the items left once the head was taken
QueueGetRest(q) == Tail(q)

\* faulty variant of QueueJoinReturns: waiting for the queue to be empty
QueueEmptyReturns(q, unfinished) == q = <<>>

\* Queue.join() returns when unfinished_tasks is zero
QueueJoinReturns(q, unfinished) == unfinished = 0

\* faulty variant of ThreadJoinReturns: the join does not wait (a zero timeout)
ThreadJoinNoWait(state) == TRUE

\* Thread.join() returns when the thread, at position `state`, has terminated
ThreadJoinReturns(state) == state = "exited"

\* faulty variant of ListAppend: the item is put at the head (insert(0, x))
ListPrepend(l, x) == <<x>> \o l

\* faulty variant of ListAppend: the item is appended twice
ListAppendTwice(l, x) == Append(Append(l, x), x)

\* list.append(x), one bytecode-atomic call under the interpreter lock
ListAppend(l, x) == Append(l, x)

\* faulty variant of ListExtend: the items are not merged
ListExtendNothing(l, r) == l

\* list.extend(r)
ListExtend(l, r) == l \o r

(***************************************************************************)
(* State after WebVulnScanner.__init__                                     *)
(***************************************************************************)
Unprobed == [t |-> "unprobed"]

Init ==
    /\ target \in {RStripSlash(a) : a \in Targets}
    /\ threads \in ThreadCounts
    /\ integration_output \in OutputPaths
    /\ findings = <<>>
    /\ pc = "idle"
    /\ i = 0
    /\ results = <<>>
    /\ pathq = <<>>
    /\ unfinished_tasks = 0
    /\ wpc = [w \in Workers |-> "unstarted"]
    /\ wpath = [w \in Workers |-> None]
    /\ wresp = [w \in Workers |-> None]
    /\ cve_resp = None
    /\ file = None
    /\ outcome = [p \in AllPaths |-> Unprobed]
    /\ probes = [p \in AllPaths |-> 0]
    /\ dequeues = [p \in PathSet |-> 0]
    /\ processed = [p \in PathSet |-> 0]
    /\ cve_status = [k \in 1..Len(CVE_PATHS) |-> "unset"]
    /\ cve_report = [k \in 1..Len(CVE_PATHS) |-> "unset"]

(***************************************************************************)
(* Classification.                                                         *)
(***************************************************************************)
\* str + str
Concat(a, b) == a \o b

\* faulty variant of IsExposed: any response counts
AnyResponseExposed(resp) == resp # None

\* `resp and resp.status_code == 200` of the worker
IsExposed(resp) == Truthy(resp) /\ resp.status_code = 200

ExposedFinding(url) == [type |-> "exposed_path", url |-> url]

\* bool(meta['keyword']): None and '' are false
KeywordTruthy(kw) == kw # None /\ kw.v # <<>>

\* faulty variant of CveStatus: the branch of a task without keyword sets no status
CveStatusKeywordOnly(meta, resp) ==
    IF Truthy(resp) /\ resp.status_code = 200 /\ KeywordTruthy(meta.keyword)
          /\ StrIn(meta.keyword.v, resp.text)
    THEN "likely_present"
    ELSE "not_detected"

\* finding['status'] at the end of one iteration of check_cve_signatures
CveStatus(meta, resp) ==
    IF Truthy(resp) /\ resp.status_code = 200
    THEN IF KeywordTruthy(meta.keyword)
         THEN IF StrIn(meta.keyword.v, resp.text)
              THEN "likely_present"
              ELSE "not_detected"
         ELSE "possibly_detected"
    ELSE "not_detected"

\* finding['details'] at the end of the iteration
CveDetails(meta, resp) ==
    IF Truthy(resp) /\ resp.status_code = 200 /\ KeywordTruthy(meta.keyword)
          /\ StrIn(meta.keyword.v, resp.text)
    THEN "Keyword matched in response."
    ELSE ""

\* faulty variant of CveRecorded: the finding is appended in every branch
CveAlwaysRecorded(meta, resp) == TRUE

\* whether the iteration reaches one of its two self.findings.append(finding)
CveRecorded(meta, resp) ==
    /\ Truthy(resp)
    /\ resp.status_code = 200
    /\ (KeywordTruthy(meta.keyword) => StrIn(meta.keyword.v, resp.text))

\* the line the iteration prints
CveReport(meta, resp) ==
    IF Truthy(resp) /\ resp.status_code = 200
    THEN IF KeywordTruthy(meta.keyword)
         THEN IF StrIn(meta.keyword.v, resp.text)
              THEN "[CVE] likely present"
              ELSE "[OK] not detected, keyword not found"
         ELSE "[CVE] possibly detected"
    ELSE IF Truthy(resp)
         THEN "[OK] not detected (HTTP status)"
         ELSE "[Warn] scan failed"

CveFinding(meta, url, resp) ==
    [type |-> "cve_test", cve |-> meta.cve, url |-> url,
     status |-> CveStatus(meta, resp), details |-> CveDetails(meta, resp)]

(***************************************************************************)
(* json.dump: a list of dicts becomes an array of objects, each the        *)
(* sequence of its members in the dict's insertion order.                  *)
(***************************************************************************)
\* faulty variant of JsonObject: the members after "url" are not written
JsonObjectTypeUrlOnly(d) == << <<"type", Str(d.type)>>, <<"url", Str(d.url)>> >>

JsonObject(d) ==
    IF d.type = "exposed_path"
    THEN << <<"type", Str(d.type)>>, <<"url", Str(d.url)>> >>
    ELSE << <<"type", Str(d.type)>>, <<"cve", Str(d.cve)>>, <<"url", Str(d.url)>>,
            <<"status", Str(d.status)>>, <<"details", Str(d.details)>> >>

JsonDump(l) == [k \in 1..Len(l) |-> JsonObject(l[k])]

\* the file open(self.integration_output, 'w') leaves behind
WrittenFile(content) == [t |-> "file", content |-> content]

(***************************************************************************)
(* The main thread: run(), check_common_paths, check_cve_signatures,       *)
(* save_results_json.                                                      *)
(***************************************************************************)
\* faulty variant of AfterCommonPathsPc: run() goes straight to save_results_json
SkipCvePc == "export"

\* the statement run() reaches when check_common_paths returned
AfterCommonPathsPc == "cve_probe"

workerVars == <<wpc, wpath, wresp>>
configVars == <<target, threads, integration_output>>
cveVars == <<cve_resp, cve_status, cve_report>>
pathHistory == <<dequeues, processed>>

\* run() is called; check_common_paths creates `results` and `pathq` and puts
\* every common path on the queue
RunStart ==
    /\ pc = "idle"
    /\ results' = <<>>
    /\ pathq' = [k \in 1..Len(COMMON_PATHS) |-> Str(COMMON_PATHS[k])]
    /\ unfinished_tasks' = Len(COMMON_PATHS)
    /\ i' = 0
    /\ pc' = IF RangeLen(threads) = 0 THEN "join_q" ELSE "spawn"
    /\ UNCHANGED <<configVars, findings, workerVars, cveVars, file, outcome, probes,
                   pathHistory>>

\* one iteration of `for _ in range(self.threads)`: start a worker thread
Spawn ==
    /\ pc = "spawn"
    /\ wpc' = [wpc EXCEPT ![i + 1] = "get"]
    /\ i' = i + 1
    /\ pc' = IF i + 1 = RangeLen(threads) THEN "join_q" ELSE "spawn"
    /\ UNCHANGED <<configVars, findings, results, pathq, unfinished_tasks, wpath, wresp,
                   cveVars, file, outcome, probes, pathHistory>>

\* pathq.join() returns
QueueJoin ==
    /\ pc = "join_q"
    /\ QueueJoinReturns(pathq, unfinished_tasks)
    /\ i' = 0
    /\ pc' = IF RangeLen(threads) = 0 THEN "extend" ELSE "put_stop"
    /\ UNCHANGED <<configVars, findings, results, pathq, unfinished_tasks, workerVars,
                   cveVars, file, outcome, probes, pathHistory>>

\* one iteration of the stop loop: pathq.put(None)
PutStop ==
    /\ pc = "put_stop"
    /\ pathq' = QueuePut(pathq, None)
    /\ unfinished_tasks' = unfinished_tasks + 1
    /\ i' = IF i + 1 = RangeLen(threads) THEN 0 ELSE i + 1
    /\ pc' = IF i + 1 = RangeLen(threads) THEN "join_t" ELSE "put_stop"
    /\ UNCHANGED <<configVars, findings, results, workerVars, cveVars, file, outcome,
                   probes, pathHistory>>

\* one iteration of `for t in threads: t.join()`: the thread has terminated
JoinThread ==
    /\ pc = "join_t"
    /\ ThreadJoinReturns(wpc[i + 1])
    /\ i' = IF i + 1 = RangeLen(threads) THEN 0 ELSE i + 1
    /\ pc' = IF i + 1 = RangeLen(threads) THEN "extend" ELSE "join_t"
    /\ UNCHANGED <<configVars, findings, results, pathq, unfinished_tasks, workerVars,
                   cveVars, file, outcome, probes, pathHistory>>

\* self.findings.extend(results); check_common_paths returns
Extend ==
    /\ pc = "extend"
    /\ findings' = ListExtend(findings, results)
    /\ i' = 0
    /\ pc' = AfterCommonPathsPc
    /\ UNCHANGED <<configVars, results, pathq, unfinished_tasks, workerVars, cveVars,
                   file, outcome, probes, pathHistory>>

\* resp = robust_get(url, self.timeout) for the next entry of CVE_PATHS
CveProbe ==
    /\ pc = "cve_probe"
    /\ \E o \in GetOutcomes(Concat(target, CVE_PATHS[i + 1].path), Bodies) :
          /\ cve_resp' = o
          /\ outcome' = [outcome EXCEPT ![CVE_PATHS[i + 1].path] = o]
          /\ pc' = RobustGetPc(o, "cve_classify")
    /\ probes' = [probes EXCEPT ![CVE_PATHS[i + 1].path] = @ + 1]
    /\ UNCHANGED <<configVars, findings, i, results, pathq, unfinished_tasks, workerVars,
                   cve_status, cve_report, file, pathHistory>>

\* the rest of the iteration: build `finding`, classify, append, print
CveClassify ==
    /\ pc = "cve_classify"
    /\ LET meta == CVE_PATHS[i + 1]
           url == Concat(target, meta.path)
       IN /\ findings' = IF CveRecorded(meta, cve_resp)
                         THEN ListAppend(findings, CveFinding(meta, url, cve_resp))
                         ELSE findings
          /\ cve_status' = [cve_status EXCEPT ![i + 1] = CveStatus(meta, cve_resp)]
          /\ cve_report' = [cve_report EXCEPT ![i + 1] = CveReport(meta, cve_resp)]
    /\ i' = IF i + 1 = Len(CVE_PATHS) THEN 0 ELSE i + 1
    /\ pc' = IF i + 1 = Len(CVE_PATHS) THEN "export" ELSE "cve_probe"
    /\ UNCHANGED <<configVars, results, pathq, unfinished_tasks, workerVars, cve_resp,
                   file, outcome, probes, pathHistory>>

\* save_results_json, then run() prints the findings and returns
Export ==
    /\ pc = "export"
    /\ file' = IF integration_output # None THEN WrittenFile(JsonDump(findings)) ELSE file
    /\ pc' = "done"
    /\ UNCHANGED <<configVars, findings, i, results, pathq, unfinished_tasks, workerVars,
                   cveVars, outcome, probes, pathHistory>>

(***************************************************************************)
(* A worker thread of check_common_paths.                                  *)
(***************************************************************************)
\* path = pathq.get(); `if path is None: break`
WorkerGet(w) ==
    /\ wpc[w] = "get"
    /\ pathq # <<>>
    /\ LET item == Head(pathq)
       IN /\ wpath' = [wpath EXCEPT ![w] = item]
          /\ wpc' = [wpc EXCEPT ![w] = IF item = None THEN "exited" ELSE "probe"]
          \* the frame of a thread that returned is gone, its locals with it
          /\ wresp' = IF item = None THEN [wresp EXCEPT ![w] = None] ELSE wresp
          /\ dequeues' = IF item = None THEN dequeues
                         ELSE [dequeues EXCEPT ![item.v] = @ + 1]
    /\ pathq' = QueueGetRest(pathq)
    /\ UNCHANGED <<configVars, findings, pc, i, results, unfinished_tasks, cveVars,
                   file, outcome, probes, processed>>

\* url = self.target + path; resp = robust_get(url, self.timeout)
WorkerProbe(w) ==
    /\ wpc[w] = "probe"
    /\ \E o \in GetOutcomes(Concat(target, wpath[w].v), {BodyEmpty}) :
          /\ wresp' = [wresp EXCEPT ![w] = o]
          /\ outcome' = [outcome EXCEPT ![wpath[w].v] = o]
          /\ wpc' = [wpc EXCEPT ![w] = RobustGetPc(o, "classify")]
    /\ probes' = [probes EXCEPT ![wpath[w].v] = @ + 1]
    /\ UNCHANGED <<configVars, findings, pc, i, results, pathq, unfinished_tasks, wpath,
                   cveVars, file, pathHistory>>

\* `if resp and resp.status_code == 200: results.append(...)`
WorkerClassify(w) ==
    /\ wpc[w] = "classify"
    /\ results' = IF IsExposed(wresp[w])
                  THEN ListAppend(results, ExposedFinding(Concat(target, wpath[w].v)))
                  ELSE results
    /\ wpc' = [wpc EXCEPT ![w] = "task_done"]
    /\ UNCHANGED <<configVars, findings, pc, i, pathq, unfinished_tasks, wpath, wresp,
                   cveVars, file, outcome, probes, pathHistory>>

\* pathq.task_done(), and back to the head of `while True`
WorkerTaskDone(w) ==
    /\ wpc[w] = "task_done"
    /\ unfinished_tasks' = unfinished_tasks - 1
    /\ processed' = [processed EXCEPT ![wpath[w].v] = @ + 1]
    /\ wpc' = [wpc EXCEPT ![w] = "get"]
    /\ UNCHANGED <<configVars, findings, pc, i, results, pathq, wpath, wresp, cveVars,
                   file, outcome, probes, dequeues>>

Next ==
    \/ RunStart
    \/ Spawn
    \/ QueueJoin
    \/ PutStop
    \/ JoinThread
    \/ Extend
    \/ CveProbe
    \/ CveClassify
    \/ Export
    \/ \E w \in Workers : WorkerGet(w)
    \/ \E w \in Workers : WorkerProbe(w)
    \/ \E w \in Workers : WorkerClassify(w)
    \/ \E w \in Workers : WorkerTaskDone(w)

Spec == Init /\ [][Next]_vars

\* The interpreter schedules every runnable thread and every probe returns: a step of
\* the main thread or of a worker that stays possible is eventually taken.
Fairness ==
    /\ WF_vars(RunStart \/ Spawn \/ QueueJoin \/ PutStop \/ JoinThread \/ Extend
                  \/ CveProbe \/ CveClassify \/ Export)
    /\ \A w \in Workers :
          WF_vars(WorkerGet(w) \/ WorkerProbe(w) \/ WorkerClassify(w) \/ WorkerTaskDone(w))

FairSpec == Spec /\ Fairness

(***************************************************************************)
(* Vocabulary of the properties.                                           *)
(***************************************************************************)
Range(l) == {l[k] : k \in 1..Len(l)}

Count(l, x) == Cardinality({k \in 1..Len(l) : l[k] = x})

\* the probe of path p returned a response with this status
HasStatus(p, status) == outcome[p].t = "Response" /\ outcome[p].status_code = status

IsResponse(p) == outcome[p].t = "Response"

\* the probe of path p ended in a transport failure
Failed(p) == outcome[p] = None

\* check_common_paths has passed pathq.join()
JoinPassed == pc \notin {"idle", "spawn", "join_q"}

\* check_common_paths has returned
PathsReturned == pc \in {"cve_probe", "cve_classify", "export", "done"}

\* worker w holds a path task it has not yet marked done
InFlight(w) == wpc[w] \in {"probe", "classify", "task_done"}

\* k is a literal substring of h: h = pre + k + post for some pre and post
Contains(k, h) ==
    \E a \in 0..Len(h) : \E b \in a..Len(h) : SubSeq(h, a + 1, b) = k

UrlOf(p) == target \o p

\* C1: every path task put on the queue is taken from it by exactly one worker and
\* processed exactly once: never twice while the pool runs, and exactly once each,
\* N in all, once the queue join has returned.
C1_EachTaskExactlyOnce ==
    /\ \A p \in PathSet :
          /\ dequeues[p] <= 1
          /\ processed[p] <= dequeues[p]
          /\ Cardinality({w \in Workers : InFlight(w) /\ wpath[w] = Str(p)}) <= 1
    /\ JoinPassed =>
          /\ \A p \in PathSet : dequeues[p] = 1 /\ processed[p] = 1
          /\ Cardinality({p \in PathSet : processed[p] = 1}) = Len(COMMON_PATHS)

C1_Witness ==
    /\ pc = "done"
    /\ threads >= 2
    /\ \A p \in PathSet : dequeues[p] = 1 /\ processed[p] = 1

\* C2: the findings of the path phase never outnumber the tasks whose probe returned
\* status 200, and when check_common_paths has returned self.findings holds exactly
\* one exposed_path finding for each such task and none for any other task.
C2_OneFindingPer200 ==
    /\ Len(results) <= Cardinality({p \in PathSet : HasStatus(p, 200)})
    /\ \A p \in PathSet : Count(results, ExposedFinding(UrlOf(p))) <= 1
    /\ PathsReturned =>
          \A p \in PathSet :
              Count(findings, ExposedFinding(UrlOf(p))) = IF HasStatus(p, 200) THEN 1 ELSE 0

C2_Witness ==
    /\ pc = "cve_probe"
    /\ threads >= 2
    /\ \E p \in PathSet : HasStatus(p, 200)
    /\ \E p \in PathSet : ~HasStatus(p, 200)
    /\ Len(findings) = Cardinality({p \in PathSet : HasStatus(p, 200)})

\* C3: the scan always completes: whatever thread count the constructor accepted and
\* whatever the probes returned, run() is never stuck before Done, and at Done the
\* JSON file has been written when integration_output is set.
C3_ScanAlwaysCompletes ==
    /\ pc = "done" \/ ENABLED Next
    /\ (pc = "done" /\ integration_output # None) => file = WrittenFile(JsonDump(findings))

\* With at least one worker the fair scan does reach Done; the runs that never do
\* are those without a worker.
CompletesWithAWorker == threads >= 1 => <>(pc = "done")

\* C4: the pool shuts down only after every path task has been dequeued and fully
\* processed: while the main thread puts stop sentinels, joins the threads, merges the
\* results or has returned, no path task is queued or in flight.
C4_ShutdownAfterAllProcessed ==
    (JoinPassed \/ None \in Range(pathq)) =>
        /\ \A p \in PathSet : processed[p] = 1
        /\ \A w \in Workers : ~InFlight(w)
        /\ \A k \in 1..Len(pathq) : pathq[k] = None
        /\ unfinished_tasks = Cardinality({k \in 1..Len(pathq) : pathq[k] = None})
                               + Cardinality({w \in Workers : wpc[w] = "exited"})

C4_Witness ==
    /\ pc = "put_stop"
    /\ i = 1
    /\ threads >= 2
    /\ \E p \in PathSet : Failed(p)

\* the exposed_path and cve_test records of a list that name path p
FindingsFor(l, p) == {k \in 1..Len(l) : l[k].url = UrlOf(p)}

\* C5: a transport failure is isolated: the worker whose probe returned None records
\* no finding, marks the task done and goes on (it terminates only on a stop
\* sentinel), and with at least one worker the run is never stuck, so the queue join
\* still returns.
C5_FailureIsolation ==
    /\ \A p \in PathSet :
          Failed(p) =>
              /\ FindingsFor(results, p) = {}
              /\ \/ processed[p] = 1
                 \/ \E w \in Workers :
                        wpath[w] = Str(p) /\ wpc[w] \in {"classify", "task_done"}
    /\ \A w \in Workers : wpc[w] = "exited" => (wpath[w] = None /\ JoinPassed)
    /\ threads >= 1 => (pc = "done" \/ ENABLED Next)

\* the only worker went on to its next task after a failed probe, and the scan ended
C5_Witness ==
    /\ pc = "done"
    /\ threads = 1
    /\ Failed(COMMON_PATHS[1])
    /\ HasStatus(COMMON_PATHS[2], 200)
    /\ Len(results) = 1

\* C6: a probe answered with a status other than 200 (404 for one) never yields a
\* finding, in either phase: no record for that URL is in results or in self.findings.
C6_Non200NeverAFinding ==
    \A p \in AllPaths :
        (IsResponse(p) /\ ~HasStatus(p, 200)) =>
            FindingsFor(results, p) = {} /\ FindingsFor(findings, p) = {}

C6_Witness ==
    /\ pc = "done"
    /\ HasStatus(COMMON_PATHS[1], 404)
    /\ outcome[CVE_PATHS[1].path] = Response(404, BodyStruts)
    /\ outcome[CVE_PATHS[2].path] = Response(204, BodyPasswd)
    /\ findings = <<>>

\* C7: for a CVE task with a keyword whose probe returned 200, the status is
\* likely_present iff the keyword is a literal substring of the body, and not_detected
\* otherwise; "root:" is likely_present against "root:x:0:0".
C7_KeywordSubstring ==
    /\ \A k \in 1..Len(CVE_PATHS) :
          (/\ cve_status[k] # "unset"
           /\ CVE_PATHS[k].keyword # None
           /\ HasStatus(CVE_PATHS[k].path, 200)) =>
              cve_status[k] = IF Contains(CVE_PATHS[k].keyword.v, outcome[CVE_PATHS[k].path].text)
                              THEN "likely_present"
                              ELSE "not_detected"
    /\ (cve_status[3] # "unset" /\ outcome[CVE_PATHS[3].path] = Response(200, BodyPasswd))
          => cve_status[3] = "likely_present"
    /\ (cve_status[3] # "unset" /\ outcome[CVE_PATHS[3].path] = Response(200, BodyStruts))
          => cve_status[3] = "not_detected"

C7_Witness ==
    /\ pc = "done"
    /\ outcome[CVE_PATHS[1].path] = Response(200, BodyStruts)
    /\ cve_status[1] = "likely_present"
    /\ outcome[CVE_PATHS[3].path] = Response(200, BodyStruts)
    /\ cve_status[3] = "not_detected"

\* C8: for a CVE task without a keyword every probe answered 200 is classified
\* possibly_detected, whatever the body, and a cve_test finding with that status is
\* recorded.
C8_NoKeywordPossiblyDetected ==
    \A k \in 1..Len(CVE_PATHS) :
        (/\ cve_status[k] # "unset"
         /\ CVE_PATHS[k].keyword = None
         /\ HasStatus(CVE_PATHS[k].path, 200)) =>
            /\ cve_status[k] = "possibly_detected"
            /\ \E n \in 1..Len(findings) :
                  /\ findings[n].type = "cve_test"
                  /\ findings[n].cve = CVE_PATHS[k].cve
                  /\ findings[n].url = UrlOf(CVE_PATHS[k].path)
                  /\ findings[n].status = "possibly_detected"

C8_Witness ==
    /\ pc = "done"
    /\ outcome[CVE_PATHS[2].path] = Response(200, BodyPasswd)
    /\ cve_status[2] = "possibly_detected"

\* the CVE task k is a hit for the responses the server gave
CveHit(k) ==
    /\ HasStatus(CVE_PATHS[k].path, 200)
    /\ CVE_PATHS[k].keyword # None =>
          Contains(CVE_PATHS[k].keyword.v, outcome[CVE_PATHS[k].path].text)

\* the record a hit of CVE task k is reported with
ExpectedCveFinding(k) ==
    [type |-> "cve_test", cve |-> CVE_PATHS[k].cve, url |-> UrlOf(CVE_PATHS[k].path),
     status |-> IF CVE_PATHS[k].keyword = None THEN "possibly_detected" ELSE "likely_present",
     details |-> IF CVE_PATHS[k].keyword = None THEN "" ELSE "Keyword matched in response."]

\* the findings the mapping from URL to response calls for
ExpectedFindings ==
    {ExposedFinding(UrlOf(p)) : p \in {q \in PathSet : HasStatus(q, 200)}}
      \cup {ExpectedCveFinding(k) : k \in {n \in 1..Len(CVE_PATHS) : CveHit(n)}}

\* only /admin answers 200 among the common paths, /struts2-showcase/index.action
\* answers 200 with a body containing "Apache", every other path answers 404
Scenario ==
    /\ HasStatus(COMMON_PATHS[1], 200)
    /\ \A k \in 2..Len(COMMON_PATHS) : HasStatus(COMMON_PATHS[k], 404)
    /\ outcome[CVE_PATHS[1].path] = Response(200, BodyStruts)
    /\ \A k \in 2..Len(CVE_PATHS) : HasStatus(CVE_PATHS[k].path, 404)

\* C9: the final findings are decided by the responses alone, whatever the worker
\* count and the interleaving: at Done self.findings holds, once each, exactly the
\* findings the responses call for; in the /admin and Struts scenario these are the
\* exposed_path of /admin and the likely_present cve_test of CVE-2017-5638.
C9_FindingsDecidedByResponses ==
    pc = "done" =>
        /\ Range(findings) = ExpectedFindings
        /\ Len(findings) = Cardinality(ExpectedFindings)
        /\ Scenario =>
              /\ Len(findings) = 2
              /\ Range(findings) =
                    { [type |-> "exposed_path",
                       url |-> target \o <<"/","a","d","m","i","n">>],
                      [type |-> "cve_test", cve |-> "CVE-2017-5638",
                       url |-> target \o CVE_PATHS[1].path,
                       status |-> "likely_present",
                       details |-> "Keyword matched in response."] }

C9_Witness ==
    /\ pc = "done"
    /\ Scenario
    /\ threads = MaxThreads
    /\ Len(findings) = 2

\* the state of the orchestrator: 0 Idle, 1 ScanningPaths, 2 ScanningSignatures,
\* 3 Exporting, 4 Done; 5 stands for any other position (a failure state)
PhaseOf(p) ==
    CASE p = "idle" -> 0
      [] p \in {"spawn", "join_q", "put_stop", "join_t", "extend"} -> 1
      [] p \in {"cve_probe", "cve_classify"} -> 2
      [] p = "export" -> 3
      [] p = "done" -> 4
      [] OTHER -> 5

\* C10: run() starts Idle and moves through ScanningPaths, ScanningSignatures,
\* Exporting and Done in that order, one state at a time and never back, whatever the
\* tasks' outcomes; it is never in a failure state.
C10_PhaseOrder ==
    /\ PhaseOf(pc) = 0
    /\ [][PhaseOf(pc') = PhaseOf(pc) \/ PhaseOf(pc') = PhaseOf(pc) + 1]_vars
    /\ [](PhaseOf(pc) <= 4)

\* Done is reached although a path probe and a CVE probe failed and others were not 200
C10_Witness ==
    /\ pc = "done"
    /\ \E p \in PathSet : Failed(p)
    /\ \E p \in PathSet : HasStatus(p, 404)
    /\ Failed(CVE_PATHS[1].path)
    /\ HasStatus(CVE_PATHS[3].path, 404)

\* the worker threads check_common_paths starts
Started == 1..RangeLen(threads)

\* the CVE phase has begun: run() is in check_cve_signatures or past it, or a CVE
\* probe has been issued
CvePhaseBegun == PhaseOf(pc) >= 2 \/ \E k \in 1..Len(CVE_PATHS) : probes[CVE_PATHS[k].path] > 0

\* C11: the phases run in order and the path phase drains before the CVE phase
\* starts: once the CVE phase has begun every common-path task has been processed,
\* every worker thread has exited, no path probe is in flight, and self.findings
\* already holds the exposed_path finding of every path that answered 200.
C11_PathPhaseDrainsFirst ==
    CvePhaseBegun =>
        /\ PhaseOf(pc) >= 2
        /\ \A p \in PathSet : processed[p] = 1 /\ probes[p] = 1
        /\ \A w \in Workers : wpc[w] \in {"unstarted", "exited"}
        /\ \A w \in Started : wpc[w] = "exited"
        /\ pathq = <<>>
        /\ \A p \in PathSet :
              HasStatus(p, 200) => \E n \in 1..Len(findings) :
                                       findings[n] = ExposedFinding(UrlOf(p))

\* the first CVE probe has just returned
C11_Witness ==
    /\ pc = "cve_classify"
    /\ i = 0
    /\ threads >= 2
    /\ \E p \in PathSet : HasStatus(p, 200)
    /\ \E p \in PathSet : Failed(p)

\* a configuration the specification calls an error: a thread count that is zero or
\* negative, or a target that is no URL
ConfigurationError == threads <= 0 \/ ~HasScheme(target)

\* C12: a configuration error is fatal: the scanner never enters ScanningPaths, issues
\* no probe and starts no worker for such a configuration.
C12_ConfigurationErrorIsFatal ==
    ConfigurationError =>
        /\ PhaseOf(pc) = 0
        /\ \A p \in AllPaths : probes[p] = 0
        /\ \A w \in Workers : wpc[w] = "unstarted"

\* a state the code reaches with a target that is no URL: the workers ran, robust_get
\* was called for every task and failed, and run() is at Done
MalformedTargetScanned ==
    /\ ~HasScheme(target)
    /\ pc = "done"
    /\ \A p \in AllPaths : probes[p] = 1 /\ Failed(p)

\* the findings list l is a prefix of the list m
IsPrefix(l, m) == Len(l) <= Len(m) /\ SubSeq(m, 1, Len(l)) = l

\* C13: self.findings is append-only: every step leaves the old list as a prefix of
\* the new one, so no finding is removed, reordered or changed once it is in.
C13_FindingsAppendOnly == [][IsPrefix(findings, findings')]_vars

\* findings of both phases are in the list, the path phase's first
C13_Witness ==
    /\ pc = "done"
    /\ Len(findings) >= 3
    /\ findings[1].type = "exposed_path"
    /\ findings[Len(findings)].type = "cve_test"

\* json.load of an exported object: the dict that maps each member's name to its
\* string value
JsonParseObject(o) ==
    [name \in {o[n][1] : n \in 1..Len(o)} |->
        (o[CHOOSE n \in 1..Len(o) : o[n][1] = name][2]).v]

\* json.load of the exported array
JsonLoad(a) == [k \in 1..Len(a) |-> JsonParseObject(a[k])]

\* C14: when a JSON path is configured the exported array, parsed back, equals
\* self.findings at export time (same length, order and field values) and holds every
\* finding of both phases; when none is configured nothing is written, and nothing is
\* written before the export step.
C14_ExportRoundTrip ==
    /\ (pc = "done" /\ integration_output # None) =>
          /\ file # None
          /\ Len(file.content) = Len(findings)
          /\ JsonLoad(file.content) = findings
          /\ \A k \in 1..Len(findings) :
                Len(file.content[k]) = Cardinality(DOMAIN findings[k])
          /\ Range(JsonLoad(file.content)) = ExpectedFindings
    /\ (pc # "done" \/ integration_output = None) => file = None

C14_Witness ==
    /\ pc = "done"
    /\ integration_output # None
    /\ Len(file.content) >= 3
    /\ \E k \in 1..Len(file.content) : JsonLoad(file.content)[k].type = "exposed_path"
    /\ \E k \in 1..Len(file.content) : JsonLoad(file.content)[k].type = "cve_test"

\* C15: in the CVE phase "scan failed" is reported for a task iff its probe gave no
\* response at all; a response with any status other than 200, 4xx and 5xx included,
\* is reported as not detected with its HTTP status.
C15_ScanFailedIffNoResponse ==
    \A k \in 1..Len(CVE_PATHS) :
        cve_report[k] # "unset" =>
            /\ cve_report[k] = "[Warn] scan failed" <=> Failed(CVE_PATHS[k].path)
            /\ (IsResponse(CVE_PATHS[k].path) /\ ~HasStatus(CVE_PATHS[k].path, 200)) =>
                  cve_report[k] = "[OK] not detected (HTTP status)"

\* what the code does hold to: "scan failed" is reported iff `resp` is false, which is
\* no response or a response whose status is 400 or above
ScanFailedIffFalsyResponse ==
    \A k \in 1..Len(CVE_PATHS) :
        cve_report[k] # "unset" =>
            (cve_report[k] = "[Warn] scan failed"
                <=> (Failed(CVE_PATHS[k].path)
                       \/ (IsResponse(CVE_PATHS[k].path)
                             /\ outcome[CVE_PATHS[k].path].status_code >= 400)))

RECURSIVE SumOver(_, _)
\* the sum of f over the set of paths S
SumOver(f, S) ==
    IF S = {} THEN 0
    ELSE LET p == CHOOSE q \in S : TRUE IN f[p] + SumOver(f, S \ {p})

\* C16: every task gets a single probe and no retry: robust_get is never called twice
\* for a URL, failed or not, and over a whole run() it is called exactly once per
\* entry of COMMON_PATHS and of CVE_PATHS, |COMMON_PATHS| + |CVE_PATHS| calls in all.
C16_OneProbePerTask ==
    /\ \A p \in AllPaths : probes[p] <= 1
    /\ \A p \in AllPaths : probes[p] = 1 <=> outcome[p] # Unprobed
    /\ pc = "done" =>
          /\ \A p \in AllPaths : probes[p] = 1
          /\ SumOver(probes, AllPaths) = Len(COMMON_PATHS) + Len(CVE_PATHS)

\* a whole run in which a path probe and a CVE probe failed
C16_Witness ==
    /\ pc = "done"
    /\ HasScheme(target)
    /\ \E p \in PathSet : Failed(p)
    /\ \E p \in CvePathSet : Failed(p)
    /\ SumOver(probes, AllPaths) = Len(COMMON_PATHS) + Len(CVE_PATHS)

Min(a, b) == IF a <= b THEN a ELSE b

\* the worker threads that have been started
SpawnedWorkers == {w \in Workers : wpc[w] # "unstarted"}

\* the workers inside robust_get
PathProbesInFlight == {w \in Workers : wpc[w] = "probe"}

\* the number of CVE probes the main thread is inside of
CveProbesInFlight == IF pc = "cve_probe" THEN 1 ELSE 0

\* the pool size the thread count stands for: a count below zero starts no thread
PoolSize == IF threads >= 0 THEN threads ELSE 0

\* C17: the probes in flight are bounded: the path phase starts exactly poolSize
\* workers and has at most min(poolSize, number of path tasks) probes in flight; the
\* CVE phase has at most one probe in flight, none of the path phase, and probes the
\* entries of CVE_PATHS in table order, each after the one before it was classified.
C17_ProbesInFlightBounded ==
    /\ Cardinality(SpawnedWorkers) <= PoolSize
    /\ pc \notin {"idle", "spawn"} => Cardinality(SpawnedWorkers) = PoolSize
    /\ Cardinality(PathProbesInFlight) <= Min(PoolSize, Len(COMMON_PATHS))
    /\ Cardinality(PathProbesInFlight) + CveProbesInFlight
          <= IF PhaseOf(pc) >= 2 THEN 1 ELSE Min(PoolSize, Len(COMMON_PATHS))
    /\ PhaseOf(pc) >= 2 => PathProbesInFlight = {}
    /\ \A k \in 2..Len(CVE_PATHS) :
          probes[CVE_PATHS[k].path] > 0 => cve_status[k - 1] # "unset"
    /\ \A k \in 1..Len(CVE_PATHS) : probes[CVE_PATHS[k].path] <= 1

\* as many path probes in flight as the bound allows, with more than one worker
C17_Witness ==
    /\ Cardinality(PathProbesInFlight) = Min(PoolSize, Len(COMMON_PATHS))
    /\ Cardinality(PathProbesInFlight) >= 2

\* the stop sentinels still on the queue
SentinelsQueued == {k \in 1..Len(pathq) : pathq[k] = None}

\* the workers that took a sentinel and left their loop
ExitedWorkers == {w \in Workers : wpc[w] = "exited"}

\* the number of iterations the stop loop has made
SentinelsPut ==
    IF pc = "put_stop" THEN i
    ELSE IF pc \in {"join_t", "extend"} \/ PathsReturned THEN PoolSize
    ELSE 0

\* C18: the sentinel shutdown is clean: a sentinel is on the queue or taken only after
\* the queue join returned with every path processed; one sentinel is put per worker
\* and each is taken by one worker, which exits on it; when check_common_paths has
\* returned every worker has terminated and the queue holds nothing.
C18_CleanSentinelShutdown ==
    /\ (SentinelsQueued # {} \/ ExitedWorkers # {}) =>
          /\ JoinPassed
          /\ \A p \in PathSet : processed[p] = 1
    /\ Cardinality(SentinelsQueued) + Cardinality(ExitedWorkers) = SentinelsPut
    /\ SentinelsPut <= PoolSize
    /\ \A w \in ExitedWorkers : wpath[w] = None
    /\ (pc \in {"extend"} \/ PathsReturned) =>
          /\ ExitedWorkers = 1..PoolSize
          /\ SpawnedWorkers = ExitedWorkers
          /\ pathq = <<>>

\* check_common_paths has just returned with several workers, all of them terminated
C18_Witness ==
    /\ pc = "cve_probe"
    /\ i = 0
    /\ threads >= 2
    /\ ExitedWorkers = 1..threads
    /\ pathq = <<>>

\* the records of self.findings that report CVE task k
CveRecordsOf(k) ==
    {n \in 1..Len(findings) :
        findings[n].type = "cve_test" /\ findings[n].cve = CVE_PATHS[k].cve}

\* C19: self.findings only ever holds positive results: every cve_test record has
\* status likely_present or possibly_detected, a task classified not_detected (a
\* status other than 200, a keyword not found, a transport failure) has no record, and
\* every exposed_path record is of a path that answered 200.
C19_OnlyPositiveFindings ==
    /\ \A n \in 1..Len(findings) :
          /\ findings[n].type \in {"exposed_path", "cve_test"}
          /\ findings[n].type = "cve_test" =>
                findings[n].status \in {"likely_present", "possibly_detected"}
          /\ findings[n].type = "exposed_path" =>
                \E p \in PathSet : findings[n].url = UrlOf(p) /\ HasStatus(p, 200)
    /\ \A n \in 1..Len(results) :
          /\ results[n].type = "exposed_path"
          /\ \E p \in PathSet : results[n].url = UrlOf(p) /\ HasStatus(p, 200)
    /\ \A k \in 1..Len(CVE_PATHS) :
          /\ cve_status[k] = "not_detected" => CveRecordsOf(k) = {}
          /\ cve_status[k] \in {"likely_present", "possibly_detected"} =>
                \A n \in CveRecordsOf(k) : findings[n].status = cve_status[k]

\* the three kinds of not_detected happened and left only the positive findings
C19_Witness ==
    /\ pc = "done"
    /\ HasStatus(CVE_PATHS[1].path, 200) /\ cve_status[1] = "not_detected"
    /\ Failed(CVE_PATHS[2].path) /\ cve_status[2] = "not_detected"
    /\ HasStatus(CVE_PATHS[3].path, 404) /\ cve_status[3] = "not_detected"
    /\ Len(findings) = 1
    /\ findings[1].type = "exposed_path"

====
